---- MODULE Spec2Model ----
(***************************************************************************)
(* Discrete-event model of the two packet-scheduler simulators of the      *)
(* repository: FCFSSimulator (src/fcfs_simulator.cpp) and WFQSimulator     *)
(* (src/wfq_simulator.cpp).                                                *)
(*                                                                         *)
(* Each simulator object is one record whose fields are the object's       *)
(* members; every member function is an operator from a simulator record   *)
(* to the record after the call.  Simulated time, packet sizes, weights    *)
(* and virtual times are doubles in the code; the model draws them from    *)
(* integers chosen so that every quotient the code takes (size /           *)
(* linkCapacity, size / weight) is exact.                                  *)
(***************************************************************************)
EXTENDS Integers, Sequences, FiniteSets, TLC

VARIABLES cfg, fcfs, wfq, draws

vars == <<cfg, fcfs, wfq, draws>>

(***************************************************************************)
(* Bounds of the model.                                                    *)
(***************************************************************************)
MaxTime == 3
MaxBuffer == 2

SourceCounts == {1, 2}
SizeSet == {2, 4}
WeightSet == {1, 2}
CapacitySet == {2}
DeltaSet == {1, 2}

(***************************************************************************)
(* Configuration, as loadConfig leaves it in the simulator's members.      *)
(* startTime and endTime are tb_frac * simulationTime and                  *)
(* te_frac * simulationTime with both fractions in [0, 1] and              *)
(* startTime <= endTime.  The last source has packet sizes from 2 to 4,    *)
(* the others the fixed size 4.                                            *)
(***************************************************************************)
WindowSet ==
    {w \in {0, MaxTime} \X {0, MaxTime} : w[1] <= w[2]}

SourceConfigs(n) ==
    {src \in [0 .. n - 1 -> [weight : WeightSet, minSize : SizeSet, maxSize : SizeSet,
                             startTime : {0, MaxTime}, endTime : {0, MaxTime}]] :
        \A i \in 0 .. n - 1 :
            /\ src[i].minSize = (IF i = n - 1 THEN 2 ELSE 4)
            /\ src[i].maxSize = 4
            /\ <<src[i].startTime, src[i].endTime>> \in WindowSet}

Configs ==
    UNION {[numSources : {n}, simulationTime : {MaxTime},
            linkCapacity : CapacitySet, bufferSize : 0 .. MaxBuffer,
            sources : SourceConfigs(n)] : n \in SourceCounts}

SourceIds == 0 .. cfg.numSources - 1

PACKET_ARRIVAL == "PACKET_ARRIVAL"
PACKET_DEPARTURE == "PACKET_DEPARTURE"

SourceStats ==
    [packetsGenerated |-> 0, packetsTransmitted |-> 0, packetsDropped |-> 0,
     bytesTransmitted |-> 0, totalDelay |-> 0]

(***************************************************************************)
(* The draws of src.sizeDist the model takes: the sizes of SizeSet within  *)
(* [minSize, maxSize].                                                     *)
(***************************************************************************)
SizeDraws(srcID) ==
    {z \in SizeSet : cfg.sources[srcID].minSize <= z /\ z <= cfg.sources[srcID].maxSize}

(***************************************************************************)
(*                              FCFSSimulator                              *)
(***************************************************************************)
\* Mutant of FCFS_topEvents: the comparator reversed, the latest event on
\* top.
FCFS_topEvents_Latest(q) == {e \in q : \A o \in q : e.time >= o.time}

\* The events of minimum time: the candidates for eventQueue.top().  The
\* comparator (Event::operator>) orders events by time alone, so which of
\* several events of equal time is on top depends on the heap's layout.
FCFS_topEvents(q) == {e \in q : \A o \in q : e.time <= o.time}

FCFS_NoPacket == [id |-> 0, sourceID |-> 0, size |-> 0, arrivalTime |-> 0]

FCFS_ArrivalEvent(tm, srcID) ==
    [type |-> PACKET_ARRIVAL, time |-> tm, sourceID |-> srcID,
     packet |-> FCFS_NoPacket]

FCFS_DepartureEvent(tm, p) ==
    [type |-> PACKET_DEPARTURE, time |-> tm, sourceID |-> p.sourceID,
     packet |-> p]

\* The object after construction and loadConfig.  pc, newPacket, admitted,
\* offered and departed are not members: pc is the position in run(),
\* newPacket the last packet handleArrivalEvent generated, admitted the
\* buffer occupancy right after its admission step, offered the events the
\* last step passed to scheduleEvent, departed the log of
\* <<packet id, time>> of the departures handled so far.
FCFS_Init ==
    [currentTime |-> 0, linkBusy |-> FALSE, nextPacketId |-> 1,
     stats |-> [i \in SourceIds |-> SourceStats],
     packetBuffer |-> <<>>, eventQueue |-> {},
     pc |-> "start", newPacket |-> FCFS_NoPacket, admitted |-> 0,
     offered |-> {}, departed |-> <<>>]

FCFS_scheduleEvent(s, e) ==
    IF e.time <= cfg.simulationTime
    THEN [s EXCEPT !.eventQueue = @ \cup {e}, !.offered = @ \cup {e}]
    ELSE [s EXCEPT !.offered = @ \cup {e}]

\* Mutant of FCFS_startNextTransmission: the test of linkBusy left out.
FCFS_startNextTransmission_NoBusyTest(s) ==
    IF s.packetBuffer = <<>>
    THEN s
    ELSE LET packetToTransmit == Head(s.packetBuffer)
             transmissionTime == packetToTransmit.size \div cfg.linkCapacity
         IN  FCFS_scheduleEvent(
                 [s EXCEPT !.linkBusy = TRUE, !.packetBuffer = Tail(@)],
                 FCFS_DepartureEvent(s.currentTime + transmissionTime,
                                     packetToTransmit))

\* Mutant of FCFS_startNextTransmission: the packet at the back of the
\* queue is transmitted.
FCFS_startNextTransmission_FromBack(s) ==
    IF s.linkBusy \/ s.packetBuffer = <<>>
    THEN s
    ELSE LET packetToTransmit == s.packetBuffer[Len(s.packetBuffer)]
             transmissionTime == packetToTransmit.size \div cfg.linkCapacity
         IN  FCFS_scheduleEvent(
                 [s EXCEPT !.linkBusy = TRUE,
                           !.packetBuffer = SubSeq(@, 1, Len(@) - 1)],
                 FCFS_DepartureEvent(s.currentTime + transmissionTime,
                                     packetToTransmit))

FCFS_startNextTransmission(s) ==
    IF s.linkBusy \/ s.packetBuffer = <<>>
    THEN s
    ELSE LET packetToTransmit == Head(s.packetBuffer)
             transmissionTime == packetToTransmit.size \div cfg.linkCapacity
         IN  FCFS_scheduleEvent(
                 [s EXCEPT !.linkBusy = TRUE, !.packetBuffer = Tail(@)],
                 FCFS_DepartureEvent(s.currentTime + transmissionTime,
                                     packetToTransmit))

\* Mutant of FCFS_handleArrivalEvent: the admission test is <= instead of <.
FCFS_handleArrivalEvent_AdmitAtCapacity(s, e, delta, size) ==
    LET srcID == e.sourceID
        nextArrivalTime == s.currentTime + delta
        s1 == IF nextArrivalTime < cfg.sources[srcID].endTime
              THEN FCFS_scheduleEvent(s, FCFS_ArrivalEvent(nextArrivalTime, srcID))
              ELSE s
        newPacket == [id |-> s1.nextPacketId, sourceID |-> srcID,
                      size |-> size, arrivalTime |-> s1.currentTime]
        s2 == [s1 EXCEPT !.nextPacketId = @ + 1,
                         !.newPacket = newPacket,
                         !.stats[srcID].packetsGenerated = @ + 1]
        s3 == IF Len(s2.packetBuffer) <= cfg.bufferSize
              THEN [s2 EXCEPT !.packetBuffer = Append(@, newPacket)]
              ELSE [s2 EXCEPT !.stats[srcID].packetsDropped = @ + 1]
        s4 == [s3 EXCEPT !.admitted = Len(s3.packetBuffer)]
    IN  FCFS_startNextTransmission(s4)

\* Mutant of FCFS_handleArrivalEvent: the packet is stamped with the time
\* of the next arrival.
FCFS_handleArrivalEvent_LateStamp(s, e, delta, size) ==
    LET srcID == e.sourceID
        nextArrivalTime == s.currentTime + delta
        s1 == IF nextArrivalTime < cfg.sources[srcID].endTime
              THEN FCFS_scheduleEvent(s, FCFS_ArrivalEvent(nextArrivalTime, srcID))
              ELSE s
        newPacket == [id |-> s1.nextPacketId, sourceID |-> srcID,
                      size |-> size, arrivalTime |-> nextArrivalTime]
        s2 == [s1 EXCEPT !.nextPacketId = @ + 1,
                         !.newPacket = newPacket,
                         !.stats[srcID].packetsGenerated = @ + 1]
        s3 == IF Len(s2.packetBuffer) < cfg.bufferSize
              THEN [s2 EXCEPT !.packetBuffer = Append(@, newPacket)]
              ELSE [s2 EXCEPT !.stats[srcID].packetsDropped = @ + 1]
        s4 == [s3 EXCEPT !.admitted = Len(s3.packetBuffer)]
    IN  FCFS_startNextTransmission(s4)

\* Mutant of FCFS_handleArrivalEvent: on overflow the packet at the head of
\* the queue is dropped and the new packet enqueued.
FCFS_handleArrivalEvent_HeadDrop(s, e, delta, size) ==
    LET srcID == e.sourceID
        nextArrivalTime == s.currentTime + delta
        s1 == IF nextArrivalTime < cfg.sources[srcID].endTime
              THEN FCFS_scheduleEvent(s, FCFS_ArrivalEvent(nextArrivalTime, srcID))
              ELSE s
        newPacket == [id |-> s1.nextPacketId, sourceID |-> srcID,
                      size |-> size, arrivalTime |-> s1.currentTime]
        s2 == [s1 EXCEPT !.nextPacketId = @ + 1,
                         !.newPacket = newPacket,
                         !.stats[srcID].packetsGenerated = @ + 1]
        s3 == IF Len(s2.packetBuffer) < cfg.bufferSize
              THEN [s2 EXCEPT !.packetBuffer = Append(@, newPacket)]
              ELSE IF s2.packetBuffer = <<>>
              THEN [s2 EXCEPT !.stats[srcID].packetsDropped = @ + 1]
              ELSE [s2 EXCEPT !.stats[Head(s2.packetBuffer).sourceID].packetsDropped = @ + 1,
                              !.packetBuffer = Append(Tail(@), newPacket)]
        s4 == [s3 EXCEPT !.admitted = Len(s3.packetBuffer)]
    IN  FCFS_startNextTransmission(s4)

\* delta is the draw of src.arrivalDist, size the draw of src.sizeDist.
FCFS_handleArrivalEvent(s, e, delta, size) ==
    LET srcID == e.sourceID
        nextArrivalTime == s.currentTime + delta
        s1 == IF nextArrivalTime < cfg.sources[srcID].endTime
              THEN FCFS_scheduleEvent(s, FCFS_ArrivalEvent(nextArrivalTime, srcID))
              ELSE s
        newPacket == [id |-> s1.nextPacketId, sourceID |-> srcID,
                      size |-> size, arrivalTime |-> s1.currentTime]
        s2 == [s1 EXCEPT !.nextPacketId = @ + 1,
                         !.newPacket = newPacket,
                         !.stats[srcID].packetsGenerated = @ + 1]
        s3 == IF Len(s2.packetBuffer) < cfg.bufferSize
              THEN [s2 EXCEPT !.packetBuffer = Append(@, newPacket)]
              ELSE [s2 EXCEPT !.stats[srcID].packetsDropped = @ + 1]
        s4 == [s3 EXCEPT !.admitted = Len(s3.packetBuffer)]
    IN  FCFS_startNextTransmission(s4)

\* Mutant of FCFS_handleDepartureEvent: the packet's bytes counted twice.
FCFS_handleDepartureEvent_DoubleBytes(s, e) ==
    LET p == e.packet
        srcID == p.sourceID
        s1 == [s EXCEPT !.linkBusy = FALSE,
                        !.stats[srcID].bytesTransmitted = @ + p.size + p.size,
                        !.stats[srcID].packetsTransmitted = @ + 1,
                        !.stats[srcID].totalDelay = @ + (s.currentTime - p.arrivalTime),
                        !.departed = Append(@, <<p.id, s.currentTime>>)]
    IN  FCFS_startNextTransmission(s1)

\* Mutant of FCFS_handleDepartureEvent: linkBusy is not cleared.
FCFS_handleDepartureEvent_StaysBusy(s, e) ==
    LET p == e.packet
        srcID == p.sourceID
        s1 == [s EXCEPT !.stats[srcID].bytesTransmitted = @ + p.size,
                        !.stats[srcID].packetsTransmitted = @ + 1,
                        !.stats[srcID].totalDelay = @ + (s.currentTime - p.arrivalTime),
                        !.departed = Append(@, <<p.id, s.currentTime>>)]
    IN  FCFS_startNextTransmission(s1)

FCFS_handleDepartureEvent(s, e) ==
    LET p == e.packet
        srcID == p.sourceID
        s1 == [s EXCEPT !.linkBusy = FALSE,
                        !.stats[srcID].bytesTransmitted = @ + p.size,
                        !.stats[srcID].packetsTransmitted = @ + 1,
                        !.stats[srcID].totalDelay = @ + (s.currentTime - p.arrivalTime),
                        !.departed = Append(@, <<p.id, s.currentTime>>)]
    IN  FCFS_startNextTransmission(s1)

\* run(), lines 180-182: one arrival per source at its startTime.
RECURSIVE FCFS_prime(_, _)
FCFS_prime(s, i) ==
    IF i = cfg.numSources
    THEN s
    ELSE FCFS_prime(
             FCFS_scheduleEvent(s, FCFS_ArrivalEvent(cfg.sources[i].startTime, i)),
             i + 1)

\* The test of the while loop of run(): the loop is left when the queue is
\* empty.
FCFS_loopTest(s) ==
    IF s.eventQueue = {} THEN [s EXCEPT !.pc = "done"] ELSE [s EXCEPT !.pc = "loop"]

\* One iteration of the loop of run() with currentEvent the event on top.
FCFS_iteration(s, currentEvent, delta, size) ==
    LET s1 == [s EXCEPT !.eventQueue = @ \ {currentEvent},
                        !.currentTime = currentEvent.time,
                        !.offered = {}]
    IN  IF s1.currentTime > cfg.simulationTime
        THEN [s1 EXCEPT !.pc = "break"]
        ELSE IF currentEvent.type = PACKET_ARRIVAL
             THEN FCFS_loopTest(FCFS_handleArrivalEvent(s1, currentEvent, delta, size))
             ELSE FCFS_loopTest(FCFS_handleDepartureEvent(s1, currentEvent))

(***************************************************************************)
(*                              WFQSimulator                               *)
(***************************************************************************)
\* The events of minimum time: the candidates for eventQueue.top(), as in
\* FCFS_topEvents.
WFQ_topEvents(q) == {e \in q : \A o \in q : e.time <= o.time}

WFQ_NoPacket ==
    [id |-> 0, sourceID |-> 0, size |-> 0, weight |-> 0, arrivalTime |-> 0,
     virtualFinishTime |-> 0]

WFQ_ArrivalEvent(tm, srcID) ==
    [type |-> PACKET_ARRIVAL, time |-> tm, sourceID |-> srcID,
     packet |-> WFQ_NoPacket]

WFQ_DepartureEvent(tm, p) ==
    [type |-> PACKET_DEPARTURE, time |-> tm, sourceID |-> p.sourceID,
     packet |-> p]

\* What the build can do when handleArrivalEvent calls top() and pop() on
\* an empty packetBuffer (undefined behaviour): the process dies, or it
\* goes on with a packetToDrop read from memory that holds no packet, whose
\* sourceID is the index of some source or of none (-1).
UBOutcomes ==
    {[dies |-> TRUE, sourceID |-> -1]}
    \cup {[dies |-> FALSE, sourceID |-> i] : i \in {-1} \cup SourceIds}

\* The outcome passed where packetBuffer cannot be empty at top().
NoUB == [dies |-> FALSE, sourceID |-> -1]

\* The object after construction and loadConfig.  lastFinishTime is the
\* member of that name of each Source.  packetBuffer is kept in the order
\* in which top()/pop() deliver it: ascending virtualFinishTime.  pc,
\* newPacket, admitted, offered and departed are as in FCFS_Init; emptyTop
\* records that top() and pop() were called on an empty packetBuffer.
WFQ_Init ==
    [currentTime |-> 0, systemVirtualTime |-> 0, linkBusy |-> FALSE,
     nextPacketId |-> 1,
     lastFinishTime |-> [i \in SourceIds |-> 0],
     stats |-> [i \in SourceIds |-> SourceStats],
     packetBuffer |-> <<>>, eventQueue |-> {},
     pc |-> "start", newPacket |-> WFQ_NoPacket, admitted |-> 0,
     offered |-> {}, departed |-> <<>>, emptyTop |-> FALSE]

\* Mutant of WFQ_push: the comparator reversed, the largest
\* virtualFinishTime served first.
WFQ_push_LargestFirst(buf, p, tie) ==
    LET more == {i \in 1 .. Len(buf) : buf[i].virtualFinishTime > p.virtualFinishTime}
        same == {i \in 1 .. Len(buf) : buf[i].virtualFinishTime = p.virtualFinishTime}
        ahead == Cardinality(more)
                 + (IF tie < Cardinality(same) THEN tie ELSE Cardinality(same))
    IN  SubSeq(buf, 1, ahead) \o <<p>> \o SubSeq(buf, ahead + 1, Len(buf))

\* packetBuffer.push(p).  The comparator looks at virtualFinishTime alone,
\* so where p comes among the buffered packets of equal virtualFinishTime
\* depends on the heap's layout: tie is the number of them served before p.
WFQ_push(buf, p, tie) ==
    LET less == {i \in 1 .. Len(buf) : buf[i].virtualFinishTime < p.virtualFinishTime}
        same == {i \in 1 .. Len(buf) : buf[i].virtualFinishTime = p.virtualFinishTime}
        ahead == Cardinality(less)
                 + (IF tie < Cardinality(same) THEN tie ELSE Cardinality(same))
    IN  SubSeq(buf, 1, ahead) \o <<p>> \o SubSeq(buf, ahead + 1, Len(buf))

\* Mutant of WFQ_scheduleEvent: the horizon test is < instead of <=.
WFQ_scheduleEvent_BeforeHorizon(s, e) ==
    IF e.time < cfg.simulationTime
    THEN [s EXCEPT !.eventQueue = @ \cup {e}, !.offered = @ \cup {e}]
    ELSE [s EXCEPT !.offered = @ \cup {e}]

WFQ_scheduleEvent(s, e) ==
    IF e.time <= cfg.simulationTime
    THEN [s EXCEPT !.eventQueue = @ \cup {e}, !.offered = @ \cup {e}]
    ELSE [s EXCEPT !.offered = @ \cup {e}]

WFQ_startNextTransmission(s) ==
    IF s.linkBusy \/ s.packetBuffer = <<>>
    THEN s
    ELSE LET packetToTransmit == Head(s.packetBuffer)
             virtualStartTime ==
                 packetToTransmit.virtualFinishTime
                 - (packetToTransmit.size \div packetToTransmit.weight)
             transmissionTime == packetToTransmit.size \div cfg.linkCapacity
         IN  WFQ_scheduleEvent(
                 [s EXCEPT !.linkBusy = TRUE, !.packetBuffer = Tail(@),
                           !.systemVirtualTime = virtualStartTime],
                 WFQ_DepartureEvent(s.currentTime + transmissionTime,
                                    packetToTransmit))

\* Mutant of Max: the smaller of the two.
Max_Smaller(a, b) == IF a >= b THEN b ELSE a

Max(a, b) == IF a >= b THEN a ELSE b

\* Mutant of WFQ_admit: on overflow the new packet is pushed first and the
\* minimum of the buffer with it is dropped.
WFQ_admit_PushFirst(s, tie, ub) ==
    LET newPacket == s.newPacket
    IN  IF Len(s.packetBuffer) < cfg.bufferSize
        THEN [s EXCEPT !.packetBuffer = WFQ_push(@, newPacket, tie)]
        ELSE IF s.packetBuffer # <<>>
        THEN LET pushed == WFQ_push(s.packetBuffer, newPacket, tie)
                 packetToDrop == Head(pushed)
             IN  [s EXCEPT !.stats[packetToDrop.sourceID].packetsDropped = @ + 1,
                           !.packetBuffer = Tail(pushed)]
        ELSE IF ub.dies
        THEN [s EXCEPT !.emptyTop = TRUE, !.pc = "crashed"]
        ELSE IF ub.sourceID \in SourceIds
        THEN [s EXCEPT !.emptyTop = TRUE,
                       !.stats[ub.sourceID].packetsDropped = @ + 1,
                       !.packetBuffer = <<newPacket>>]
        ELSE [s EXCEPT !.emptyTop = TRUE, !.packetBuffer = <<newPacket>>]

\* Mutant of WFQ_admit: the drop is counted for the source of the new
\* packet.
WFQ_admit_CountsNewSource(s, tie, ub) ==
    LET newPacket == s.newPacket
    IN  IF Len(s.packetBuffer) < cfg.bufferSize
        THEN [s EXCEPT !.packetBuffer = WFQ_push(@, newPacket, tie)]
        ELSE IF s.packetBuffer # <<>>
        THEN LET packetToDrop == Head(s.packetBuffer)
             IN  [s EXCEPT !.stats[newPacket.sourceID].packetsDropped = @ + 1,
                           !.packetBuffer = WFQ_push(Tail(@), newPacket, tie)]
        ELSE IF ub.dies
        THEN [s EXCEPT !.emptyTop = TRUE, !.pc = "crashed"]
        ELSE IF ub.sourceID \in SourceIds
        THEN [s EXCEPT !.emptyTop = TRUE,
                       !.stats[ub.sourceID].packetsDropped = @ + 1,
                       !.packetBuffer = <<newPacket>>]
        ELSE [s EXCEPT !.emptyTop = TRUE, !.packetBuffer = <<newPacket>>]

\* Lines 152-162: buffer management.  s is the simulator with newPacket
\* generated and counted.
WFQ_admit(s, tie, ub) ==
    LET newPacket == s.newPacket
    IN  IF Len(s.packetBuffer) < cfg.bufferSize
        THEN [s EXCEPT !.packetBuffer = WFQ_push(@, newPacket, tie)]
        ELSE IF s.packetBuffer # <<>>
        THEN LET packetToDrop == Head(s.packetBuffer)
             IN  [s EXCEPT !.stats[packetToDrop.sourceID].packetsDropped = @ + 1,
                           !.packetBuffer = WFQ_push(Tail(@), newPacket, tie)]
        ELSE IF ub.dies
        THEN [s EXCEPT !.emptyTop = TRUE, !.pc = "crashed"]
        ELSE IF ub.sourceID \in SourceIds
        THEN [s EXCEPT !.emptyTop = TRUE,
                       !.stats[ub.sourceID].packetsDropped = @ + 1,
                       !.packetBuffer = <<newPacket>>]
        ELSE [s EXCEPT !.emptyTop = TRUE, !.packetBuffer = <<newPacket>>]

\* delta is the draw of src.arrivalDist, size the draw of src.sizeDist.
WFQ_handleArrivalEvent(s, e, delta, size, tie, ub) ==
    LET srcID == e.sourceID
        src == cfg.sources[srcID]
        nextArrivalTime == s.currentTime + delta
        s1 == IF nextArrivalTime < src.endTime
              THEN WFQ_scheduleEvent(s, WFQ_ArrivalEvent(nextArrivalTime, srcID))
              ELSE s
        virtualStartTime == Max(s1.systemVirtualTime, s1.lastFinishTime[srcID])
        newPacket == [id |-> s1.nextPacketId, sourceID |-> srcID, size |-> size,
                      weight |-> src.weight, arrivalTime |-> s1.currentTime,
                      virtualFinishTime |-> virtualStartTime + (size \div src.weight)]
        s2 == [s1 EXCEPT !.nextPacketId = @ + 1,
                         !.newPacket = newPacket,
                         !.lastFinishTime[srcID] = newPacket.virtualFinishTime,
                         !.stats[srcID].packetsGenerated = @ + 1]
        s3 == WFQ_admit(s2, tie, ub)
        s4 == [s3 EXCEPT !.admitted = Len(s3.packetBuffer)]
    IN  IF s4.pc = "crashed" THEN s4 ELSE WFQ_startNextTransmission(s4)

\* Mutant of WFQ_handleDepartureEvent: the call of startNextTransmission
\* left out.
WFQ_handleDepartureEvent_NoRestart(s, e) ==
    LET p == e.packet
        srcID == p.sourceID
        s1 == [s EXCEPT !.linkBusy = FALSE,
                        !.stats[srcID].bytesTransmitted = @ + p.size,
                        !.stats[srcID].packetsTransmitted = @ + 1,
                        !.stats[srcID].totalDelay = @ + (s.currentTime - p.arrivalTime),
                        !.departed = Append(@, <<p.id, s.currentTime>>)]
    IN  s1

WFQ_handleDepartureEvent(s, e) ==
    LET p == e.packet
        srcID == p.sourceID
        s1 == [s EXCEPT !.linkBusy = FALSE,
                        !.stats[srcID].bytesTransmitted = @ + p.size,
                        !.stats[srcID].packetsTransmitted = @ + 1,
                        !.stats[srcID].totalDelay = @ + (s.currentTime - p.arrivalTime),
                        !.departed = Append(@, <<p.id, s.currentTime>>)]
    IN  WFQ_startNextTransmission(s1)

\* run(), lines 214-216: one arrival per source at its startTime.
RECURSIVE WFQ_prime(_, _)
WFQ_prime(s, i) ==
    IF i = cfg.numSources
    THEN s
    ELSE WFQ_prime(
             WFQ_scheduleEvent(s, WFQ_ArrivalEvent(cfg.sources[i].startTime, i)),
             i + 1)

\* The test of the while loop of run().  A crashed process tests nothing.
WFQ_loopTest(s) ==
    IF s.pc = "crashed" THEN s
    ELSE IF s.eventQueue = {} THEN [s EXCEPT !.pc = "done"]
    ELSE [s EXCEPT !.pc = "loop"]

\* One iteration of the loop of run() with currentEvent the event on top.
WFQ_iteration(s, currentEvent, delta, size, tie, ub) ==
    LET s1 == [s EXCEPT !.eventQueue = @ \ {currentEvent},
                        !.currentTime = currentEvent.time,
                        !.offered = {}]
    IN  IF s1.currentTime > cfg.simulationTime
        THEN [s1 EXCEPT !.pc = "break"]
        ELSE IF currentEvent.type = PACKET_ARRIVAL
             THEN WFQ_loopTest(
                      WFQ_handleArrivalEvent(s1, currentEvent, delta, size, tie, ub))
             ELSE WFQ_loopTest(WFQ_handleDepartureEvent(s1, currentEvent))

(***************************************************************************)
(*                              printResults                               *)
(***************************************************************************)
\* The sum of x[0], ..., x[n - 1]: the accumulation loop of printResults.
RECURSIVE SumOver(_, _)
SumOver(x, n) == IF n = 0 THEN 0 ELSE x[n - 1] + SumOver(x, n - 1)

\* Mutant of fairness: the division by numSources left out.
fairness_NoCount(x) ==
    LET sum_x == SumOver(x, cfg.numSources)
        sum_x_sq == SumOver([i \in SourceIds |-> x[i] * x[i]], cfg.numSources)
    IN  IF sum_x_sq > 0
        THEN [num |-> sum_x * sum_x, den |-> sum_x_sq]
        ELSE [num |-> 0, den |-> 1]

\* The fairness index of printResults for the allocations x, as the
\* fraction num / den.
fairness(x) ==
    LET sum_x == SumOver(x, cfg.numSources)
        sum_x_sq == SumOver([i \in SourceIds |-> x[i] * x[i]], cfg.numSources)
    IN  IF sum_x_sq > 0
        THEN [num |-> sum_x * sum_x, den |-> cfg.numSources * sum_x_sq]
        ELSE [num |-> 0, den |-> 1]

\* x_i is bytesTransmitted in FCFS.
FCFS_printResults(s) ==
    [fairness |-> fairness([i \in SourceIds |-> s.stats[i].bytesTransmitted])]

\* x_i is bytesTransmitted / weight in WFQ.
WFQ_printResults(s) ==
    [fairness |-> fairness([i \in SourceIds |->
                      IF cfg.sources[i].weight > 0
                      THEN s.stats[i].bytesTransmitted \div cfg.sources[i].weight
                      ELSE 0])]


\* totGen, totTrans and totDrop of printResults.
totGen(s) ==
    SumOver([i \in SourceIds |-> s.stats[i].packetsGenerated], cfg.numSources)

totTrans(s) ==
    SumOver([i \in SourceIds |-> s.stats[i].packetsTransmitted], cfg.numSources)

totDrop(s) ==
    SumOver([i \in SourceIds |-> s.stats[i].packetsDropped], cfg.numSources)

(***************************************************************************)
(* Spec: one of the two programs runs on a configuration.  The draws of    *)
(* the random generator are chosen at each arrival.                        *)
(***************************************************************************)
Init ==
    /\ cfg \in Configs
    /\ fcfs = FCFS_Init
    /\ wfq = WFQ_Init
    /\ draws = <<>>

FCFS_Start ==
    /\ fcfs.pc = "start" /\ wfq.pc = "start"
    /\ fcfs' = FCFS_loopTest(FCFS_prime(fcfs, 0))
    /\ UNCHANGED <<cfg, wfq, draws>>

FCFS_Arrival ==
    /\ fcfs.pc = "loop"
    /\ \E currentEvent \in FCFS_topEvents(fcfs.eventQueue) :
         /\ currentEvent.type = PACKET_ARRIVAL
         /\ \E delta \in DeltaSet, size \in SizeDraws(currentEvent.sourceID) :
              fcfs' = FCFS_iteration(fcfs, currentEvent, delta, size)
    /\ UNCHANGED <<cfg, wfq, draws>>

FCFS_Departure ==
    /\ fcfs.pc = "loop"
    /\ \E currentEvent \in FCFS_topEvents(fcfs.eventQueue) :
         /\ currentEvent.type = PACKET_DEPARTURE
         /\ fcfs' = FCFS_iteration(fcfs, currentEvent, 0, 0)
    /\ UNCHANGED <<cfg, wfq, draws>>

WFQ_Start ==
    /\ fcfs.pc = "start" /\ wfq.pc = "start"
    /\ wfq' = WFQ_loopTest(WFQ_prime(wfq, 0))
    /\ UNCHANGED <<cfg, fcfs, draws>>

WFQ_Arrival ==
    /\ wfq.pc = "loop"
    /\ \E currentEvent \in WFQ_topEvents(wfq.eventQueue) :
         /\ currentEvent.type = PACKET_ARRIVAL
         /\ \E delta \in DeltaSet, size \in SizeDraws(currentEvent.sourceID),
               tie \in 0 .. Len(wfq.packetBuffer),
               ub \in (IF cfg.bufferSize = 0 THEN UBOutcomes ELSE {NoUB}) :
              wfq' = WFQ_iteration(wfq, currentEvent, delta, size, tie, ub)
    /\ UNCHANGED <<cfg, fcfs, draws>>

WFQ_Departure ==
    /\ wfq.pc = "loop"
    /\ \E currentEvent \in WFQ_topEvents(wfq.eventQueue) :
         /\ currentEvent.type = PACKET_DEPARTURE
         /\ wfq' = WFQ_iteration(wfq, currentEvent, 0, 0, 0, NoUB)
    /\ UNCHANGED <<cfg, fcfs, draws>>

Next ==
    \/ FCFS_Start
    \/ FCFS_Arrival
    \/ FCFS_Departure
    \/ WFQ_Start
    \/ WFQ_Arrival
    \/ WFQ_Departure

Spec == Init /\ [][Next]_vars

(***************************************************************************)
(* SpecPair: the two programs run side by side on one configuration with   *)
(* a single source, each taking its k-th interarrival and size draw from   *)
(* the same sequence draws (both seed the same generator and draw in the   *)
(* same order).  Both use the same event heap, so an arrival and a         *)
(* departure of equal time are taken in the same order by both: prefer     *)
(* is the type taken first.                                                *)
(***************************************************************************)
PairConfigs == {c \in Configs : c.numSources = 1 /\ c.bufferSize >= 1}

PairInit ==
    /\ cfg \in PairConfigs
    /\ fcfs = FCFS_Init
    /\ wfq = WFQ_Init
    /\ draws \in [1 .. MaxTime + 1 -> DeltaSet \X SizeDraws(0)]

PickEvent(top, prefer) ==
    IF \E e \in top : e.type = prefer
    THEN CHOOSE e \in top : e.type = prefer
    ELSE CHOOSE e \in top : TRUE

FCFS_PairStep(prefer) ==
    IF fcfs.pc # "loop"
    THEN fcfs
    ELSE FCFS_iteration(fcfs, PickEvent(FCFS_topEvents(fcfs.eventQueue), prefer),
                        draws[fcfs.nextPacketId][1], draws[fcfs.nextPacketId][2])

WFQ_PairStep(prefer) ==
    IF wfq.pc # "loop"
    THEN wfq
    ELSE WFQ_iteration(wfq, PickEvent(WFQ_topEvents(wfq.eventQueue), prefer),
                       draws[wfq.nextPacketId][1], draws[wfq.nextPacketId][2],
                       0, NoUB)

Pair_Start ==
    /\ fcfs.pc = "start" /\ wfq.pc = "start"
    /\ fcfs' = FCFS_loopTest(FCFS_prime(fcfs, 0))
    /\ wfq' = WFQ_loopTest(WFQ_prime(wfq, 0))
    /\ UNCHANGED <<cfg, draws>>

Pair_Step ==
    /\ fcfs.pc = "loop" \/ wfq.pc = "loop"
    /\ \E prefer \in {PACKET_ARRIVAL, PACKET_DEPARTURE} :
         /\ fcfs' = FCFS_PairStep(prefer)
         /\ wfq' = WFQ_PairStep(prefer)
    /\ UNCHANGED <<cfg, draws>>

PairNext ==
    \/ Pair_Start
    \/ Pair_Step

SpecPair == PairInit /\ [][PairNext]_vars

(***************************************************************************)
(*                          Properties of the runs                         *)
(***************************************************************************)
Buffered(s, i) ==
    Cardinality({k \in 1 .. Len(s.packetBuffer) : s.packetBuffer[k].sourceID = i})

Departures(s) == {e \in s.eventQueue : e.type = PACKET_DEPARTURE}

\* top() and pop() have only been called on a non-empty packetBuffer.
WFQ_Defined == ~wfq.emptyTop

Balanced(s) ==
    \A i \in SourceIds :
        s.stats[i].packetsGenerated
            = s.stats[i].packetsTransmitted + s.stats[i].packetsDropped + Buffered(s, i)

\* C1: when run() has finished, every source's generated packets are its
\* transmitted, dropped and still buffered packets.
C1_CountedOnce ==
    /\ fcfs.pc = "done" => Balanced(fcfs)
    /\ (wfq.pc = "done" /\ WFQ_Defined) => Balanced(wfq)

\* C2: packetBuffer never holds more than bufferSize packets, after a
\* handler and right after the admission step of the arrival handler.
C2_BufferBound ==
    /\ Len(fcfs.packetBuffer) <= cfg.bufferSize
    /\ fcfs.admitted <= cfg.bufferSize
    /\ Len(wfq.packetBuffer) <= cfg.bufferSize
    /\ wfq.admitted <= cfg.bufferSize

\* C3: systemVirtualTime, assigned at transmission starts only, never
\* decreases (stated for the runs without undefined behaviour).
C3_VirtualTimeMonotone ==
    [][(WFQ_Defined /\ WFQ_Defined')
          => wfq'.systemVirtualTime >= wfq.systemVirtualTime]_vars

\* C4: with one source, the same draws and bufferSize >= 1, both programs
\* hand the same packets to the departure handler at the same times.
C4_SameDepartures ==
    (fcfs.pc = "done" /\ wfq.pc = "done") => fcfs.departed = wfq.departed

NoDrops(s) == \A i \in SourceIds : s.stats[i].packetsDropped = 0

\* C4 as amended: the departures are the same in the runs in which neither
\* program drops a packet.
C4_SameDeparturesNoDrop ==
    (fcfs.pc = "done" /\ wfq.pc = "done" /\ NoDrops(fcfs) /\ NoDrops(wfq))
        => fcfs.departed = wfq.departed

\* A finished pair of runs without drops in which two packets departed and
\* a packet waited in the buffer.
C4_Witness ==
    /\ fcfs.pc = "done" /\ wfq.pc = "done"
    /\ NoDrops(fcfs) /\ NoDrops(wfq)
    /\ Len(wfq.departed) >= 2
    /\ wfq.stats[0].totalDelay * cfg.linkCapacity > wfq.stats[0].bytesTransmitted

OneInFlight(s) ==
    /\ Cardinality(Departures(s)) <= 1
    /\ Departures(s) # {} => s.linkBusy

\* A step that starts a transmission (offers a departure event) starts from
\* an idle link or handles the departure that frees the link.
StartsWhenIdle(s, t) ==
    (\E e \in t.offered : e.type = PACKET_DEPARTURE)
        => (~s.linkBusy \/ Len(t.departed) = Len(s.departed) + 1)

\* C5: at most one PACKET_DEPARTURE event is in the event queue, and a
\* transmission is started only when the link is not busy.
C5_SingleTransmission ==
    /\ [](OneInFlight(fcfs) /\ OneInFlight(wfq))
    /\ [][StartsWhenIdle(fcfs, fcfs') /\ StartsWhenIdle(wfq, wfq')]_vars

\* The link transmits while packets wait in the buffer.
C5_Witness ==
    /\ Departures(fcfs) # {}
    /\ Len(fcfs.packetBuffer) >= 2

InWindow(p) ==
    /\ cfg.sources[p.sourceID].startTime <= p.arrivalTime
    /\ p.arrivalTime < cfg.sources[p.sourceID].endTime

\* C6: every generated packet arrives within [startTime, endTime) of its
\* source.
C6_InsideWindow ==
    /\ fcfs.newPacket # FCFS_NoPacket => InWindow(fcfs.newPacket)
    /\ (wfq.newPacket # WFQ_NoPacket /\ WFQ_Defined) => InWindow(wfq.newPacket)

\* The effect the claim gives an arrival with bufferSize = 0: the packet
\* is transmitted when the link is idle, and counted as dropped for its own
\* source when the link is busy.
ZeroBufferArrival(s, t) ==
    t.nextPacketId = s.nextPacketId + 1 =>
        LET p == t.newPacket
        IN  IF s.linkBusy
            THEN t.stats = [s.stats EXCEPT
                               ![p.sourceID].packetsGenerated = @ + 1,
                               ![p.sourceID].packetsDropped = @ + 1]
            ELSE /\ \E e \in t.offered : e.type = PACKET_DEPARTURE /\ e.packet = p
                 /\ t.stats = [s.stats EXCEPT ![p.sourceID].packetsGenerated = @ + 1]

\* C7: with bufferSize = 0 the WFQ arrival handler never takes the minimum
\* of an empty buffer, leaves no packet in the buffer, transmits the packet
\* that finds the link idle and drops, for its own source, the packet that
\* finds it busy.
C7_ZeroBufferWFQ ==
    /\ [](cfg.bufferSize = 0 => (~wfq.emptyTop /\ wfq.packetBuffer = <<>>))
    /\ [][cfg.bufferSize = 0 => ZeroBufferArrival(wfq, wfq')]_vars

\* C8: with bufferSize = 0 FCFS drops every generated packet and
\* transmits none.
C8_ZeroBufferFCFS ==
    cfg.bufferSize = 0 =>
        /\ ~fcfs.linkBusy
        /\ \A i \in SourceIds :
               /\ fcfs.stats[i].packetsDropped = fcfs.stats[i].packetsGenerated
               /\ fcfs.stats[i].packetsTransmitted = 0
               /\ fcfs.stats[i].bytesTransmitted = 0

\* Two packets of a source were generated with bufferSize = 0, the link idle.
C8_Witness ==
    /\ cfg.bufferSize = 0
    /\ ~fcfs.linkBusy
    /\ \E i \in SourceIds : fcfs.stats[i].packetsGenerated >= 2

OfferedLater(s) == \A e \in s.offered : e.time >= s.currentTime

\* C9: every event is passed to scheduleEvent with a time >= currentTime,
\* and currentTime never decreases.
C9_ClockMonotone ==
    /\ [](OfferedLater(fcfs) /\ OfferedLater(wfq))
    /\ [][/\ fcfs'.currentTime >= fcfs.currentTime
          /\ wfq'.currentTime >= wfq.currentTime]_vars

\* The clock has advanced and the handler scheduled an arrival and a
\* departure.
C9_Witness ==
    /\ fcfs.currentTime > 0
    /\ \E e \in fcfs.offered : e.type = PACKET_ARRIVAL
    /\ \E e \in fcfs.offered : e.type = PACKET_DEPARTURE

WithinHorizon(s) ==
    /\ \A e \in s.eventQueue : e.time <= cfg.simulationTime
    /\ \A e \in s.offered : e.time <= cfg.simulationTime <=> e \in s.eventQueue
    /\ s.currentTime <= cfg.simulationTime
    /\ s.pc # "break"
    /\ s.pc = "done" => s.eventQueue = {}

\* C10: an event is admitted to the event queue exactly when its time is
\* <= simulationTime, no handler runs later than simulationTime, and the
\* loop of run() ends only with the queue empty.
C10_Horizon == WithinHorizon(fcfs) /\ WithinHorizon(wfq)

\* A departure at exactly simulationTime was handled and an event past the
\* horizon was discarded.
C10_Witness ==
    /\ WFQ_Defined
    /\ \E k \in 1 .. Len(wfq.departed) : wfq.departed[k][2] = cfg.simulationTime
    /\ \E e \in wfq.offered : e.time > cfg.simulationTime

\* totBytes of printResults: the sum over the sources of bytesTransmitted.
RECURSIVE SumBytes(_, _)
SumBytes(s, n) ==
    IF n = 0 THEN 0 ELSE s.stats[n - 1].bytesTransmitted + SumBytes(s, n - 1)

totBytes(s) == SumBytes(s, cfg.numSources)

WithinCapacity(s) ==
    /\ totBytes(s) <= cfg.linkCapacity * s.currentTime
    /\ cfg.linkCapacity * s.currentTime <= cfg.linkCapacity * cfg.simulationTime

\* C11: the bytes counted as transmitted never exceed linkCapacity times
\* currentTime, which never exceeds linkCapacity times simulationTime, so
\* the utilization printResults computes lies in [0, 1].
C11_LinkCapacity == WithinCapacity(fcfs) /\ WithinCapacity(wfq)

\* The link was busy from time 0 to the horizon: utilization 1.
C11_Witness ==
    /\ fcfs.currentTime = cfg.simulationTime
    /\ totBytes(fcfs) = cfg.linkCapacity * cfg.simulationTime
    /\ Len(fcfs.departed) >= 2

\* The step from s to t keeps every lastFinishTime, except that an arrival
\* raises the lastFinishTime of the arriving packet's source.
FinishTimeAdvances(s, t) ==
    \A i \in SourceIds :
        IF t.nextPacketId = s.nextPacketId + 1 /\ t.newPacket.sourceID = i
        THEN /\ t.lastFinishTime[i] > s.lastFinishTime[i]
             /\ t.lastFinishTime[i] = t.newPacket.virtualFinishTime
        ELSE t.lastFinishTime[i] = s.lastFinishTime[i]

\* C12: in WFQ a source's lastFinishTime never decreases, and every arrival
\* from the source sets it to a strictly greater value, whatever becomes of
\* the packet.
C12_FinishTimeMonotone == [][FinishTimeAdvances(wfq, wfq')]_vars

\* A source has sent three packets, one of its packets was dropped, and
\* its lastFinishTime is that of its last packet.
C12_Witness ==
    /\ WFQ_Defined
    /\ \E i \in SourceIds :
          /\ wfq.stats[i].packetsGenerated >= 3
          /\ wfq.stats[i].packetsDropped >= 1
          /\ wfq.newPacket.sourceID = i
          /\ wfq.lastFinishTime[i] = wfq.newPacket.virtualFinishTime

(***************************************************************************)
(* SpecLive: Spec with the progress of a sequential program: run() is one  *)
(* thread that, while it is in its loop, takes the next iteration.         *)
(***************************************************************************)
SpecLive == Init /\ [][Next]_vars /\ WF_vars(Next)

\* run() has returned through the test of its while loop, the queue empty.
Returned(s) == s.pc = "done" /\ s.eventQueue = {}

\* C13: run() terminates: the program that runs reaches the end of its
\* loop with the event queue empty, and never leaves the loop through the
\* break on an event later than simulationTime.
C13_Terminates ==
    /\ <>(Returned(fcfs) \/ Returned(wfq))
    /\ [](fcfs.pc # "break" /\ wfq.pc # "break")

\* The program that runs returns from run() or, in WFQ, dies at top() on
\* an empty packetBuffer.
RunEnds == <>(Returned(fcfs) \/ Returned(wfq) \/ wfq.pc = "crashed")

PacketsOf(buf) == {buf[k] : k \in 1 .. Len(buf)}

IsArrival(s, t) == t.nextPacketId = s.nextPacketId + 1

IsDeparture(s, t) == Len(t.departed) = Len(s.departed) + 1

\* The path of a packet in the step from s to t: only the arrival handler
\* puts a packet into packetBuffer, and only the packet it generated; a
\* transmission starts with a packet that was in packetBuffer, which it
\* leaves; the departure handler takes its packet from a departure event,
\* and the delay it adds is not negative.
ThroughBuffer(s, t) ==
    \/ s = t
    \/ /\ \A p \in PacketsOf(t.packetBuffer) \ PacketsOf(s.packetBuffer) :
              IsArrival(s, t) /\ p = t.newPacket
       /\ \A e \in t.offered :
              e.type = PACKET_DEPARTURE =>
                  /\ e.packet \notin PacketsOf(t.packetBuffer)
                  /\ \/ e.packet \in PacketsOf(s.packetBuffer)
                     \/ /\ IsArrival(s, t)
                        /\ e.packet = t.newPacket
                        /\ t.admitted = Len(s.packetBuffer) + 1
       /\ IsDeparture(s, t) =>
              \E e \in s.eventQueue :
                  /\ e.type = PACKET_DEPARTURE
                  /\ e.packet.id = t.departed[Len(t.departed)][1]
                  /\ e.packet.arrivalTime <= t.currentTime
                  /\ t.stats[e.packet.sourceID].totalDelay
                         = s.stats[e.packet.sourceID].totalDelay
                           + (t.currentTime - e.packet.arrivalTime)
       /\ \A i \in SourceIds : t.stats[i].totalDelay >= s.stats[i].totalDelay

\* The packet in transmission arrived no later than now and departs no
\* earlier than now.
ArrivedBefore(s) ==
    \A e \in Departures(s) :
        e.packet.arrivalTime <= s.currentTime /\ s.currentTime <= e.time

\* C14: a packet the departure handler handles was put into packetBuffer
\* by the arrival handler and taken from it by startNextTransmission, and
\* its arrivalTime is <= its departure time: no delay added to totalDelay
\* is negative.
C14_BufferedFirst ==
    /\ [](ArrivedBefore(fcfs) /\ ArrivedBefore(wfq))
    /\ [][ThroughBuffer(fcfs, fcfs') /\ ThroughBuffer(wfq, wfq')]_vars

\* WFQ handles the departure of a packet that waited in the buffer, after
\* another packet was dropped.
C14_Witness ==
    /\ WFQ_Defined
    /\ Len(wfq.departed) >= 2
    /\ wfq.offered = {}
    /\ \E i \in SourceIds :
          /\ wfq.stats[i].packetsDropped >= 1
          /\ wfq.stats[i].totalDelay * cfg.linkCapacity > wfq.stats[i].bytesTransmitted

\* 1/N <= j <= 1 for the fraction j.
InJainRange(j) ==
    /\ j.den <= cfg.numSources * j.num
    /\ j.num <= j.den

\* C15: the fairness index printResults computes after run() lies in
\* [1/numSources, 1], also when no byte was transmitted.
C15_FairnessRange ==
    /\ fcfs.pc = "done" => InJainRange(FCFS_printResults(fcfs).fairness)
    /\ wfq.pc = "done" => InJainRange(WFQ_printResults(wfq).fairness)

JainOrZero(s, j) ==
    IF SumBytes(s, cfg.numSources) > 0 THEN InJainRange(j) ELSE j.num = 0

\* C15 as amended: the index lies in [1/numSources, 1] when some byte was
\* transmitted, and is 0 when none was.
C15_FairnessRangeOrZero ==
    /\ fcfs.pc = "done" => JainOrZero(fcfs, FCFS_printResults(fcfs).fairness)
    /\ wfq.pc = "done" => JainOrZero(wfq, WFQ_printResults(wfq).fairness)

\* WFQ has finished with two sources of different weights that both
\* transmitted, the index strictly between 1/2 and 1.
C15_Witness ==
    /\ wfq.pc = "done"
    /\ cfg.numSources = 2
    /\ \A i \in SourceIds : wfq.stats[i].bytesTransmitted > 0
    /\ LET j == WFQ_printResults(wfq).fairness
       IN  j.den < 2 * j.num /\ j.num < j.den

\* An arrival that finds packetBuffer holding bufferSize >= 1 packets.
Overflow(s, t) ==
    /\ IsArrival(s, t)
    /\ cfg.bufferSize >= 1
    /\ Len(s.packetBuffer) = cfg.bufferSize

\* Of the buffered packets and the arriving one, the packets kept are the
\* bufferSize of largest virtualFinishTime.
KeepsLargest(s, t) ==
    LET candidates == PacketsOf(s.packetBuffer) \cup {t.newPacket}
        kept == PacketsOf(t.packetBuffer)
    IN  /\ kept \subseteq candidates
        /\ Cardinality(kept) = cfg.bufferSize
        /\ \A d \in candidates \ kept : \A p \in kept :
               d.virtualFinishTime <= p.virtualFinishTime

\* C16: at an overflow WFQ drops the packet of smallest virtualFinishTime
\* among the buffered packets and the arriving one, and keeps the
\* bufferSize largest.
C16_KeepsLargest == [][Overflow(wfq, wfq') => KeepsLargest(wfq, wfq')]_vars

\* The arriving packet is kept, whatever its virtualFinishTime, and one
\* buffered packet is dropped, of virtualFinishTime no larger than that of
\* the buffered packets kept.
KeepsArriving(s, t) ==
    LET buffered == PacketsOf(s.packetBuffer)
        kept == PacketsOf(t.packetBuffer)
    IN  /\ t.newPacket \in kept
        /\ kept \ {t.newPacket} \subseteq buffered
        /\ Cardinality(buffered \ kept) = 1
        /\ \A d \in buffered \ kept : \A p \in buffered :
               d.virtualFinishTime <= p.virtualFinishTime

\* C16 as amended: at an overflow WFQ drops the packet of smallest
\* virtualFinishTime among the buffered packets alone; the arriving packet
\* is always kept.
C16_KeepsArriving == [][Overflow(wfq, wfq') => KeepsArriving(wfq, wfq')]_vars

\* With bufferSize 1, the third packet has replaced the only packet of
\* another source, whose virtualFinishTime was larger.
C16_Witness ==
    /\ cfg.bufferSize = 1
    /\ wfq.departed = <<>>
    /\ wfq.newPacket.id = 3
    /\ wfq.packetBuffer = <<wfq.newPacket>>
    /\ \E j \in SourceIds :
          /\ j # wfq.newPacket.sourceID
          /\ wfq.stats[j].packetsGenerated = 1
          /\ wfq.stats[j].packetsDropped = 1
          /\ wfq.newPacket.virtualFinishTime < wfq.lastFinishTime[j]

\* The head of the buffer is removed and counted as dropped for its own
\* source, the arriving packet is inserted, and the buffer holds bufferSize
\* packets, right after the admission and after the handler.
SwapsMinimum(s, t) ==
    LET packetToDrop == Head(s.packetBuffer)
    IN  /\ \A p \in PacketsOf(s.packetBuffer) :
               packetToDrop.virtualFinishTime <= p.virtualFinishTime
        /\ PacketsOf(t.packetBuffer)
               = (PacketsOf(s.packetBuffer) \ {packetToDrop}) \cup {t.newPacket}
        /\ t.admitted = cfg.bufferSize
        /\ Len(t.packetBuffer) = cfg.bufferSize
        /\ t.stats = [s.stats EXCEPT
                         ![t.newPacket.sourceID].packetsGenerated = @ + 1,
                         ![packetToDrop.sourceID].packetsDropped = @ + 1]

\* C17: at an overflow WFQ removes the packet of minimum virtualFinishTime
\* of the buffer as it was, counts the drop for that packet's source,
\* inserts the arriving packet, and the buffer holds bufferSize packets
\* again.
C17_SwapsMinimum == [][Overflow(wfq, wfq') => SwapsMinimum(wfq, wfq')]_vars

\* With bufferSize 2, the fourth packet has taken the place of a packet of
\* the other source.
C17_Witness ==
    /\ cfg.bufferSize = 2
    /\ Len(wfq.packetBuffer) = 2
    /\ wfq.departed = <<>>
    /\ wfq.newPacket.id = 4
    /\ wfq.newPacket \in PacketsOf(wfq.packetBuffer)
    /\ wfq.stats[wfq.newPacket.sourceID].packetsDropped = 0
    /\ \E j \in SourceIds : wfq.stats[j].packetsDropped = 1

\* The packet dispatched by the departure handler in the step from s to t
\* has a virtualFinishTime no smaller than the packet whose departure it
\* handles, the one dispatched just before.
DispatchedLater(s, t) ==
    IsDeparture(s, t) =>
        \A e \in Departures(s) : \A n \in t.offered :
            (e.time = t.currentTime /\ n.type = PACKET_DEPARTURE) =>
                n.packet.virtualFinishTime >= e.packet.virtualFinishTime

\* C18: in WFQ the virtualFinishTime of the packet taken at a transmission
\* start is >= that of the packets dispatched before (stated for
\* bufferSize >= 1 and two transmissions that follow one another).
C18_DispatchOrder == [][cfg.bufferSize >= 1 => DispatchedLater(wfq, wfq')]_vars

\* An FCFS arrival that finds the queue holding bufferSize packets changes
\* nothing but packetsGenerated and packetsDropped of its source and the
\* packet-id counter; packetsDropped changes in no other step.
TailDrop(s, t) ==
    /\ (IsArrival(s, t) /\ Len(s.packetBuffer) = cfg.bufferSize) =>
           /\ t.packetBuffer = s.packetBuffer
           /\ t.linkBusy = s.linkBusy
           /\ t.departed = s.departed
           /\ \A e \in t.offered : e.type = PACKET_ARRIVAL
           /\ t.stats = [s.stats EXCEPT
                            ![t.newPacket.sourceID].packetsGenerated = @ + 1,
                            ![t.newPacket.sourceID].packetsDropped = @ + 1]
    /\ (\E i \in SourceIds : t.stats[i].packetsDropped # s.stats[i].packetsDropped) =>
           (IsArrival(s, t) /\ Len(s.packetBuffer) = cfg.bufferSize)

\* C19: in FCFS an arrival that finds the queue full leaves the queue,
\* linkBusy and the transmitted, bytes and delay counters as they were and
\* counts the packet as generated and dropped for its source; a packet is
\* dropped at such an arrival only.
C19_TailDrop == [][TailDrop(fcfs, fcfs')]_vars

\* A packet of one source was just dropped at a queue of two packets that
\* holds a packet of the other source, the link busy.
C19_Witness ==
    /\ cfg.bufferSize = 2
    /\ Len(fcfs.packetBuffer) = 2
    /\ fcfs.linkBusy
    /\ fcfs.newPacket \notin PacketsOf(fcfs.packetBuffer)
    /\ fcfs.stats[fcfs.newPacket.sourceID].packetsDropped >= 1
    /\ \E p \in PacketsOf(fcfs.packetBuffer) : p.sourceID # fcfs.newPacket.sourceID
    /\ \A e \in Departures(fcfs) : e.packet # fcfs.newPacket

\* Packets are admitted in the order of their ids.  The ids of the
\* departures handled, then of the packet in transmission, then of the
\* queued packets from head to tail, are strictly increasing.
FifoOrder(s) ==
    /\ \A k \in 1 .. Len(s.departed) - 1 : s.departed[k][1] < s.departed[k + 1][1]
    /\ \A k \in 1 .. Len(s.packetBuffer) - 1 :
           s.packetBuffer[k].id < s.packetBuffer[k + 1].id
    /\ \A e \in Departures(s) :
           /\ \A k \in 1 .. Len(s.departed) : s.departed[k][1] < e.packet.id
           /\ \A p \in PacketsOf(s.packetBuffer) : e.packet.id < p.id
    /\ \A k \in 1 .. Len(s.departed) :
           \A p \in PacketsOf(s.packetBuffer) : s.departed[k][1] < p.id

\* C20: FCFS transmits packets in the order in which it admitted them: the
\* ids of the packets of successive departure events are strictly
\* increasing.
C20_FifoOrder == FifoOrder(fcfs)

\* Two departures were handled, a packet was dropped, and a packet waits
\* in the queue.
C20_Witness ==
    /\ Len(fcfs.departed) >= 2
    /\ Len(fcfs.packetBuffer) >= 1
    /\ \E i \in SourceIds : fcfs.stats[i].packetsDropped >= 1

\* Every generated packet is transmitted, dropped, in the buffer, or the
\* one packet that holds the link.
Accounted(s) ==
    totGen(s) = totTrans(s) + totDrop(s) + Len(s.packetBuffer)
                + (IF s.linkBusy THEN 1 ELSE 0)

\* The link is busy with a packet whose departure event was discarded.
CutByHorizon(s) == s.linkBusy /\ Departures(s) = {}

\* C21: in FCFS, and in WFQ with bufferSize >= 1, after every handler the
\* total of packetsGenerated is the total of packetsTransmitted plus the
\* total of packetsDropped plus the packets in packetBuffer plus 1 if
\* linkBusy; once a departure later than simulationTime was discarded
\* linkBusy stays true, and at the end at most one generated packet is in
\* none of the counts.
C21_TotalAccounted ==
    /\ [](Accounted(fcfs) /\ (cfg.bufferSize >= 1 => Accounted(wfq)))
    /\ [][/\ CutByHorizon(fcfs) => CutByHorizon(fcfs')
          /\ (cfg.bufferSize >= 1 /\ CutByHorizon(wfq)) => CutByHorizon(wfq')]_vars

\* WFQ has finished, the link still busy with the packet whose departure
\* was discarded, after a departure and a drop, a packet left in the
\* buffer.
C21_Witness ==
    /\ cfg.bufferSize >= 1
    /\ wfq.pc = "done"
    /\ CutByHorizon(wfq)
    /\ totTrans(wfq) >= 1
    /\ totDrop(wfq) >= 1
    /\ Len(wfq.packetBuffer) >= 1

\* No packet waits in packetBuffer while the link is idle.
WorkConserving(s) == ~s.linkBusy => s.packetBuffer = <<>>

\* C22: after every handler of either simulator, packetBuffer is empty if
\* linkBusy is false.
C22_WorkConserving ==
    /\ WorkConserving(fcfs)
    /\ wfq.pc # "crashed" => WorkConserving(wfq)

\* WFQ is idle with an empty buffer after it transmitted two packets, one
\* of which had waited in the buffer, and more events are to come.
C22_Witness ==
    /\ WFQ_Defined
    /\ wfq.pc = "loop"
    /\ ~wfq.linkBusy
    /\ Len(wfq.departed) >= 2
    /\ \E i \in SourceIds :
          wfq.stats[i].totalDelay * cfg.linkCapacity > wfq.stats[i].bytesTransmitted

====
